---- MODULE Spec2Model ----
(***************************************************************************)
(* State-machine model of the AATM Firebase state manager                  *)
(* (src/state_manager.py) and of the configuration it reads                *)
(* (src/aatm_config.py).                                                   *)
(*                                                                         *)
(* One process.  The main thread constructs StateManager objects, or calls *)
(* _initialize_firebase again on an object it holds, one call at a time.   *)
(* The connectivity probe runs on the single worker of a                   *)
(* ThreadPoolExecutor; the worker interleaves freely with the main thread  *)
(* and may stall for ever (no fairness is assumed for it).                 *)
(***************************************************************************)
EXTENDS Naturals, Sequences, FiniteSets

\* ---------------------------------------------------------------- bounds
MaxCalls == 2       \* invocations of _initialize_firebase in one process
MaxManagers == 2    \* StateManager objects constructed in one process
MaxValidations == 1 \* calls of config.validate() in one process

\* ----------------------------------------------------- the environment
\* Values the two environment-sourced settings can take.
ProjectIds == {"", "aatm-project"}
CredentialPaths == {"", "./missing.json", "./firebase_credentials.json"}

\* Values of risk.max_position_size_pct (per cent): the default, the
\* recommended maximum, and values above it.
PositionSizePcts == {2, 10, 11}

\* The four business collections named by FirebaseConfig.
BusinessCollections ==
    {"aatm_strategies", "aatm_performance", "aatm_market_state",
     "aatm_trade_logs"}

\* A probe addressed to a business collection instead of the sentinel.
SentinelPathInStrategies == <<"aatm_strategies", "connection_test">>

\* The sentinel location the probe addresses.
SentinelPath == <<"test", "connection_test">>

\* Documents the store holds when the process starts: business data, and
\* possibly a sentinel left behind by an earlier process.
BusinessDocs == {<<"aatm_strategies", "s1">>, <<"aatm_trade_logs", "t1">>}
InitialStores == {BusinessDocs, BusinessDocs \cup {SentinelPath}}

VARIABLES
    config,        \* aatm_config.config: firebase.project_id,
                   \* firebase.credentials_path, risk.max_position_size_pct
    validations,   \* what each call of config.validate() returned and logged
    apps,          \* number of apps registered in firebase_admin._apps
    nManagers,     \* StateManager objects constructed so far
    client,        \* self.client of each object: "None" or a handle
    initialized,   \* self._initialized of each object
    held,          \* objects whose constructor returned to the caller
    pc,            \* position of the main thread
    exc,           \* exception in flight in the main thread, "none" if none
    calls,         \* one record per invocation of _initialize_firebase
    worker,        \* the probe worker thread and its future
    store,         \* paths of the documents the store holds
    touched        \* store paths written or deleted so far

vars == <<config, validations, apps, nManagers, client, initialized, held, pc, exc,
          calls, worker, store, touched>>

Managers == 1..MaxManagers

\* The record kept for one invocation of _initialize_firebase.
NewCall(m, a) ==
    [mgr |-> m,              \* the object it runs on
     appsAtStart |-> a,      \* apps registered when it started
     cert |-> "none",        \* credentials.Certificate: none / ok / failed
     appInit |-> FALSE,      \* firebase_admin.initialize_app was executed
     clientCalls |-> 0,      \* firestore.client() invocations
     probes |-> 0,           \* probes submitted to the executor
     storeOps |-> 0,         \* set/delete requests issued to the store
     probe |-> "none",       \* what future.result gave: ok/failed/timeout
     fault |-> "none",       \* first exception raised inside the call
     raised |-> "none",      \* exception that left the call
     returned |-> FALSE,     \* the call returned normally
     log |-> << >>]          \* levels of the records logged during it

Cur == calls[Len(calls)]

IdleWorker == [pc |-> "idle", result |-> "none", exception |-> "none",
               faulted |-> FALSE,
               set |-> "none",       \* doc_ref.set: none / ok / error
               delete |-> "none"]    \* doc_ref.delete: none / ok / error

Init ==
    /\ config \in [project_id : ProjectIds,
                   credentials_path : CredentialPaths,
                   max_position_size_pct : PositionSizePcts]
    /\ validations = << >>
    /\ apps = 0
    /\ nManagers = 0
    /\ client = [m \in Managers |-> "None"]
    /\ initialized = [m \in Managers |-> FALSE]
    /\ held = {}
    /\ pc = "idle"
    /\ exc = "none"
    /\ calls = << >>
    /\ worker = IdleWorker
    /\ store \in InitialStores
    /\ touched = {}


\* ------------------------------------------------ AATMConfig.validate
\* validate without the check of the project id.
validateSkipsProjectId(cfg) ==
    [result |-> TRUE,
     log |-> IF cfg.max_position_size_pct > 10 THEN <<"warning">>
                                               ELSE << >>,
     cfg |-> cfg]

\* validate rejecting an oversized position instead of warning.
validateOversizeFails(cfg) ==
    IF cfg.project_id = "" \/ cfg.max_position_size_pct > 10
      THEN [result |-> FALSE, log |-> <<"error">>, cfg |-> cfg]
      ELSE [result |-> TRUE, log |-> << >>, cfg |-> cfg]

\* validate clamping the oversized position it warns about.
validateClamps(cfg) ==
    IF cfg.project_id = ""
      THEN [result |-> FALSE, log |-> <<"error">>, cfg |-> cfg]
      ELSE IF cfg.max_position_size_pct > 10
             THEN [result |-> TRUE, log |-> <<"warning">>,
                   cfg |-> [cfg EXCEPT !.max_position_size_pct = 10]]
             ELSE [result |-> TRUE, log |-> << >>, cfg |-> cfg]

\* AATMConfig.validate: the value returned, the levels of the records
\* logged, and the configuration as the call leaves it.
validate(cfg) ==
    IF cfg.project_id = ""
      THEN [result |-> FALSE, log |-> <<"error">>, cfg |-> cfg]
      ELSE [result |-> TRUE,
            log |-> IF cfg.max_position_size_pct > 10 THEN <<"warning">>
                                                      ELSE << >>,
            cfg |-> cfg]

\* config.validate() called by the main thread between initializations.
CallValidate ==
    /\ pc = "idle"
    /\ Len(validations) < MaxValidations
    /\ validations' = Append(validations,
           [result |-> validate(config).result, log |-> validate(config).log])
    /\ config' = validate(config).cfg
    /\ UNCHANGED <<apps, nManagers, client, initialized, held, pc, exc,
                   calls, worker, store, touched>>

\* ------------------------------------------------- the main thread: calls
SetCur(f, v) == [calls EXCEPT ![Len(calls)][f] = v]

Logged(cs, level) ==
    [cs EXCEPT ![Len(cs)].log = Append(cs[Len(cs)].log, level)]

\* StateManager(): __init__ clears both fields, then calls
\* _initialize_firebase on the new object.
Construct ==
    /\ pc = "idle"
    /\ Len(calls) < MaxCalls
    /\ nManagers < MaxManagers
    /\ nManagers' = nManagers + 1
    /\ client' = [client EXCEPT ![nManagers + 1] = "None"]
    /\ initialized' = [initialized EXCEPT ![nManagers + 1] = FALSE]
    /\ calls' = Append(calls, NewCall(nManagers + 1, apps))
    /\ pc' = "check_apps"
    /\ UNCHANGED <<config, validations, apps, held, exc, worker, store, touched>>

\* A second _initialize_firebase call on an object the caller holds.
Reinitialize(m) ==
    /\ pc = "idle"
    /\ Len(calls) < MaxCalls
    /\ m \in held
    /\ calls' = Append(calls, NewCall(m, apps))
    /\ pc' = "check_apps"
    /\ UNCHANGED <<config, validations, apps, nManagers, client, initialized, held, exc,
                   worker, store, touched>>

\* An exception raised at the current position of the try body.
Raise(e) ==
    /\ exc' = e
    /\ pc' = "handler"

\* The check of the registry dropped: credentials are loaded and the app
\* initialized on every invocation.
AppsEmptyUnchecked(a) == TRUE

\* `if not firebase_admin._apps:`
AppsEmpty(a) == a = 0

\* `if not config.firebase.credentials_path: raise ValueError(...)`
CheckApps ==
    /\ pc = "check_apps"
    /\ IF AppsEmpty(apps)
         THEN IF config.credentials_path = ""
                THEN /\ Raise("ValueError")
                     /\ calls' = SetCur("fault", "ValueError")
                ELSE /\ pc' = "certificate"
                     /\ UNCHANGED <<exc, calls>>
         ELSE /\ pc' = "client"
              /\ UNCHANGED <<exc, calls>>
    /\ UNCHANGED <<config, validations, apps, nManagers, client, initialized, held,
                   worker, store, touched>>

\* Does the credential reference resolve to a readable artifact.
Resolves(path) == path = "./firebase_credentials.json"

\* A failed credential load that is swallowed instead of raised.
AfterCertificateSwallowed(ok) == "initialize_app"

\* Where the try body goes after credentials.Certificate(...).
AfterCertificate(ok) == IF ok THEN "initialize_app" ELSE "handler"

\* `cred = credentials.Certificate(config.firebase.credentials_path)`
Certificate ==
    /\ pc = "certificate"
    /\ LET ok == Resolves(config.credentials_path)
       IN  /\ pc' = AfterCertificate(ok)
           /\ exc' = IF ok THEN "none" ELSE "FileNotFoundError"
           /\ calls' = [calls EXCEPT
                  ![Len(calls)].cert = IF ok THEN "ok" ELSE "failed",
                  ![Len(calls)].fault =
                      IF ok THEN "none" ELSE "FileNotFoundError"]
    /\ UNCHANGED <<config, validations, apps, nManagers, client, initialized, held,
                   worker, store, touched>>

\* `firebase_admin.initialize_app(cred, {...})` and the info record.
InitializeApp ==
    /\ pc = "initialize_app"
    /\ apps' = apps + 1
    /\ calls' = Logged(SetCur("appInit", TRUE), "info")
    /\ pc' = "client"
    /\ UNCHANGED <<config, validations, nManagers, client, initialized, held, exc,
                   worker, store, touched>>

\* A handle slot that is emptied when firestore.client() raises.
AssignClientOrClear(c, m, ok) ==
    [c EXCEPT ![m] = IF ok THEN "client" ELSE "None"]

\* The assignment of `self.client = firestore.client()`: it takes place
\* only if the call returns.
AssignClient(c, m, ok) == IF ok THEN [c EXCEPT ![m] = "client"] ELSE c

\* `self.client = firestore.client()`: the library returns the client of
\* the registered app or raises.
FirestoreClient ==
    /\ pc = "client"
    /\ \E ok \in BOOLEAN :
         IF ok
           THEN /\ client' = AssignClient(client, Cur.mgr, TRUE)
                /\ calls' = SetCur("clientCalls", Cur.clientCalls + 1)
                /\ pc' = "set_initialized"
                /\ exc' = exc
           ELSE /\ client' = AssignClient(client, Cur.mgr, FALSE)
                /\ calls' = [calls EXCEPT
                       ![Len(calls)].clientCalls = Cur.clientCalls + 1,
                       ![Len(calls)].fault = "Exception"]
                /\ Raise("Exception")
    /\ UNCHANGED <<config, validations, apps, nManagers, initialized, held,
                   worker, store, touched>>

\* `self._initialized = True`
SetInitialized ==
    /\ pc = "set_initialized"
    /\ initialized' = [initialized EXCEPT ![Cur.mgr] = TRUE]
    /\ pc' = "submit"
    /\ UNCHANGED <<config, validations, apps, nManagers, client, held, exc, calls,
                   worker, store, touched>>

\* --------------------------------------------------- the probe: caller

\* `future = executor.submit(connection_test)` inside
\* `with ThreadPoolExecutor(max_workers=1) as executor:`
Submit ==
    /\ pc = "submit"
    /\ worker' = [IdleWorker EXCEPT !.pc = "set"]
    /\ calls' = SetCur("probes", Cur.probes + 1)
    /\ pc' = "result"
    /\ UNCHANGED <<config, validations, apps, nManagers, client, initialized, held, exc,
                   store, touched>>

\* `success = future.result(timeout=...)`, the worker has finished: the
\* future hands over the worker's return value, or re-raises what the
\* worker raised.
FutureResult ==
    /\ pc = "result"
    /\ worker.pc = "done"
    /\ IF worker.exception = "none"
         THEN /\ calls' = SetCur("probe",
                     IF worker.result = TRUE THEN "ok" ELSE "failed")
              /\ exc' = exc
         ELSE /\ calls' = [calls EXCEPT
                     ![Len(calls)].probe = "failed",
                     ![Len(calls)].fault = worker.exception]
              /\ exc' = worker.exception
    /\ pc' = "tail"
    /\ UNCHANGED <<config, validations, apps, nManagers, client, initialized, held,
                   worker, store, touched>>

\* `future.result(timeout=...)`, the deadline passes first.
FutureTimeout ==
    /\ pc = "result"
    /\ worker.pc # "done"
    /\ calls' = SetCur("probe", "timeout")
    /\ pc' = "tail"
    /\ UNCHANGED <<config, validations, apps, nManagers, client, initialized, held, exc,
                   worker, store, touched>>

\* What _test_connection does with the probe's result: nothing on
\* success, a failure named after its cause otherwise.
ProbeFault(probe) ==
    CASE probe = "ok" -> "none"
      [] probe = "failed" -> "ConnectionTestFailed"
      [] probe = "timeout" -> "ConnectionTimeout"

ProbeTail ==
    /\ pc = "tail"
    /\ IF exc = "none"
         THEN /\ exc' = ProbeFault(Cur.probe)
              /\ calls' = SetCur("fault", ProbeFault(Cur.probe))
         ELSE UNCHANGED <<exc, calls>>
    /\ pc' = "exit_with"
    /\ UNCHANGED <<config, validations, apps, nManagers, client, initialized, held,
                   worker, store, touched>>

\* Leaving the `with` block: ThreadPoolExecutor.__exit__ is
\* shutdown(wait=True), which joins the worker.
ShutdownWaits(w) == w.pc = "done"

\* Handlers that report the failure below error level.
HandlerLogsWarning(e) == [level |-> "warning", raised |-> e]

\* Handlers that log and drop the exception (no `raise`).
HandlerSwallows(e) == [level |-> "error", raised |-> "none"]

\* The exception that leaves the handlers of _initialize_firebase: each
\* of the three logs an error record and re-raises.
Handler(e) == [level |-> "error", raised |-> e]

\* The call is over: an exception leaves _initialize_firebase (and
\* __init__, which has no handler), or the call returns.
Finish(cs, e) ==
    /\ calls' = [cs EXCEPT ![Len(cs)].raised = e,
                           ![Len(cs)].returned = (e = "none")]
    /\ held' = IF e = "none" THEN held \cup {Cur.mgr} ELSE held
    /\ exc' = "none"
    /\ pc' = "idle"

ExitWith ==
    /\ pc = "exit_with"
    /\ ShutdownWaits(worker)
    /\ IF exc = "none"
         THEN Finish(calls, "none")
         ELSE /\ pc' = "handler"
              /\ UNCHANGED <<exc, calls, held>>
    /\ UNCHANGED <<config, validations, apps, nManagers, client, initialized,
                   worker, store, touched>>

\* except FileNotFoundError / ValueError / Exception: logger.error(...)
HandleLog ==
    /\ pc = "handler"
    /\ calls' = Logged(calls, Handler(exc).level)
    /\ pc' = "reraise"
    /\ UNCHANGED <<config, validations, apps, nManagers, client, initialized,
                   held, exc, worker, store, touched>>

\* ... then `raise`: the exception leaves _initialize_firebase.
HandleRaise ==
    /\ pc = "reraise"
    /\ Finish(calls, Handler(exc).raised)
    /\ UNCHANGED <<config, validations, apps, nManagers, client, initialized,
                   worker, store, touched>>

\* --------------------------------------------------- the probe: worker
\* connection_test without its try/except: the exception ends the worker
\* and is stored in the future.
ConnectionTestUncaught(w, e) ==
    [w EXCEPT !.pc = "done", !.exception = e, !.faulted = TRUE]

\* connection_test reporting success from its except branch.
ConnectionTestExceptReturnsTrue(w, e) ==
    [w EXCEPT !.pc = "done", !.result = TRUE, !.faulted = TRUE]

\* connection_test's `except Exception as e:` logs and returns False.
ConnectionTestExcept(w, e) ==
    [w EXCEPT !.pc = "done", !.result = FALSE, !.faulted = TRUE]

\* A worker that withdraws the ready flag when its request fails.
WorkerClearsFlag(flags, m, r) ==
    IF r = "ok" THEN flags ELSE [flags EXCEPT ![m] = FALSE]

\* connection_test reads self.client and assigns no attribute of self:
\* the _initialized flags as a worker step leaves them.
WorkerLeavesFlags(flags, m, r) == flags

\* How a store request can end: done, or an error raised to the caller
\* with the request applied or not applied by the service.
StoreReplies == {"ok", "error_applied", "error_dropped"}

\* `doc_ref.set({'timestamp': ...}, merge=True)`
WorkerSet ==
    /\ worker.pc = "set"
    /\ touched' = touched \cup {SentinelPath}
    /\ \E r \in StoreReplies :
         /\ store' = IF r = "error_dropped" THEN store
                                            ELSE store \cup {SentinelPath}
         /\ IF r = "ok"
              THEN /\ worker' = [worker EXCEPT !.pc = "delete", !.set = "ok"]
                   /\ calls' = SetCur("storeOps", Cur.storeOps + 1)
              ELSE /\ worker' = ConnectionTestExcept(
                                    [worker EXCEPT !.set = "error"],
                                    "StoreError")
                   /\ calls' = Logged(SetCur("storeOps", Cur.storeOps + 1),
                                      "error")
         /\ initialized' = WorkerLeavesFlags(initialized, Cur.mgr, r)
    /\ UNCHANGED <<config, validations, apps, nManagers, client, held, pc,
                   exc>>

\* `doc_ref.delete()` then `return True`
WorkerDelete ==
    /\ worker.pc = "delete"
    /\ touched' = touched \cup {SentinelPath}
    /\ \E r \in StoreReplies :
         /\ store' = IF r = "error_dropped" THEN store
                                            ELSE store \ {SentinelPath}
         /\ IF r = "ok"
              THEN /\ worker' = [worker EXCEPT !.pc = "done",
                                               !.delete = "ok",
                                               !.result = TRUE]
                   /\ calls' = SetCur("storeOps", Cur.storeOps + 1)
              ELSE /\ worker' = ConnectionTestExcept(
                                    [worker EXCEPT !.delete = "error"],
                                    "StoreError")
                   /\ calls' = Logged(SetCur("storeOps", Cur.storeOps + 1),
                                      "error")
         /\ initialized' = WorkerLeavesFlags(initialized, Cur.mgr, r)
    /\ UNCHANGED <<config, validations, apps, nManagers, client, held, pc,
                   exc>>

\* ------------------------------------------------------ specification
CallerStep ==
    \/ CallValidate
    \/ Construct
    \/ \E m \in Managers : Reinitialize(m)
    \/ CheckApps
    \/ Certificate
    \/ InitializeApp
    \/ FirestoreClient
    \/ SetInitialized
    \/ Submit
    \/ FutureResult
    \/ FutureTimeout
    \/ ProbeTail
    \/ ExitWith
    \/ HandleLog
    \/ HandleRaise

WorkerStep ==
    \/ WorkerSet
    \/ WorkerDelete

Next == CallerStep \/ WorkerStep

Spec == Init /\ [][Next]_vars

\* ------------------------------------------------------------ claims
Finished(i) == calls[i].returned \/ calls[i].raised # "none"

ProbeSucceededFor(m) ==
    \E i \in DOMAIN calls : calls[i].mgr = m /\ calls[i].probe = "ok"

AppInits == Cardinality({i \in DOMAIN calls : calls[i].appInit})

\* C1: fail closed -- in every reachable state a manager whose
\* _initialized flag is true has already had its connectivity probe
\* complete successfully.
C1_FailClosed ==
    \A m \in 1..nManagers : initialized[m] => ProbeSucceededFor(m)

\* C2: once the probe's deadline has passed, the caller is never held
\* back by the worker: while the call that timed out is still in
\* progress the main thread always has a step it can take.
C2_CallerUnblockedAtDeadline ==
    (pc # "idle" /\ Cur.probe = "timeout") => ENABLED CallerStep

\* C3: when an invocation follows one that reached ready, it returns the
\* same client handle, and the two invocations together perform exactly
\* one firestore.client() call and exactly one probe.
C3_Idempotent ==
    \A i, j \in DOMAIN calls :
        (i < j /\ calls[i].returned /\ Finished(j)) =>
            /\ calls[j].returned
            /\ client[calls[j].mgr] = client[calls[i].mgr]
            /\ calls[i].clientCalls + calls[j].clientCalls = 1
            /\ calls[i].probes + calls[j].probes = 1

C5_EmptyProjectIdRejected ==
    config.project_id = "" =>
        \A i \in DOMAIN calls :
            /\ calls[i].clientCalls = 0
            /\ calls[i].probes = 0
            /\ calls[i].storeOps = 0
            /\ ~calls[i].returned
            /\ (Finished(i) /\ calls[i].cert # "failed") =>
                   calls[i].raised = "ValueError"

\* C6: an invocation whose credentials.Certificate fails ends with the
\* credentials-not-found failure (FileNotFoundError) and reaches neither
\* initialize_app, nor firestore.client(), nor the probe's set/delete.
C6_CredentialsNotFoundNoNetwork ==
    \A i \in DOMAIN calls :
        calls[i].cert = "failed" =>
            /\ ~calls[i].appInit
            /\ calls[i].clientCalls = 0
            /\ calls[i].probes = 0
            /\ calls[i].storeOps = 0
            /\ ~calls[i].returned
            /\ Finished(i) => calls[i].raised = "FileNotFoundError"
            /\ (i = Len(calls) /\ ~Finished(i)) =>
                   pc \in {"handler", "reraise"}

\* A credential load has failed and its invocation is over.
C6_Witness ==
    \E i \in DOMAIN calls : calls[i].cert = "failed" /\ Finished(i)

C8_CredentialLoadFirst ==
    \A i \in DOMAIN calls :
        (calls[i].clientCalls > 0 \/ calls[i].probes > 0) =>
            calls[i].cert = "ok"

\* C9: a manager enters ready (its _initialized flag becomes true) only
\* from initializing and only after its probe has succeeded.
C9_ReadyOnlyAfterProbe ==
    [][\A m \in Managers :
          (~initialized[m] /\ initialized'[m]) =>
              (pc = "tail" /\ Cur.mgr = m /\ Cur.probe = "ok")]_vars

\* C10: an exception raised by the sentinel set or delete is caught in
\* the worker and becomes a False result; the future never holds an
\* exception, and no invocation fails with the store's exception.
C10_ProbeExceptionContained ==
    /\ worker.exception = "none"
    /\ (worker.pc = "done" /\ worker.faulted) => worker.result = FALSE
    /\ \A i \in DOMAIN calls :
           /\ calls[i].fault # "StoreError"
           /\ calls[i].raised # "StoreError"

\* A store operation raised and the caller has collected the result.
C10_Witness ==
    /\ worker.pc = "done"
    /\ worker.faulted
    /\ calls # << >>
    /\ Cur.probe = "failed"

\* The documents of the four business collections.
Business(st) == {p \in st : p[1] \in BusinessCollections}

\* C11: the probe writes and deletes only at the sentinel location
\* test/connection_test: no store request has touched a business
\* collection, and no step changes the business collections' contents.
C11_ProbeOnlyTouchesSentinel ==
    /\ [](\A p \in touched :
             /\ p = <<"test", "connection_test">>
             /\ p[1] \notin BusinessCollections)
    /\ [][Business(store') = Business(store)]_vars

\* A probe has issued both its set and its delete.
C11_Witness ==
    /\ calls # << >>
    /\ Cur.storeOps = 2
    /\ touched # {}
    /\ Business(store) = BusinessDocs

\* C12: validate returns false exactly for the configurations whose
\* project id is empty, logs an error record when it does, and makes no
\* network call: a validate step issues no store request and starts no
\* initialization.
C12_ValidateRejectsEmptyProjectId ==
    /\ [](\A k \in DOMAIN validations :
             /\ validations[k].result = (config.project_id # "")
             /\ config.project_id = "" => validations[k].log = <<"error">>)
    /\ [][Len(validations') # Len(validations) =>
             UNCHANGED <<apps, calls, worker, store, touched>>]_vars

\* validate has run on a configuration with an empty project id.
C12_Witness == validations # << >> /\ config.project_id = ""

\* C13 (as claimed): for every configuration with
\* max_position_size_pct > 10, validate returns true and logs a warning.
C13_OversizeAlwaysWarns ==
    \A k \in DOMAIN validations :
        config.max_position_size_pct > 10 =>
            /\ validations[k].result = TRUE
            /\ \E n \in DOMAIN validations[k].log :
                   validations[k].log[n] = "warning"

\* C13 (amended): for every configuration with a non-empty project id
\* and max_position_size_pct > 10, validate returns true and logs a
\* warning; validate returns false only when the project id is empty.
C13_OversizeWarnsWhenProjectIdSet ==
    \A k \in DOMAIN validations :
        /\ (config.project_id # "" /\ config.max_position_size_pct > 10) =>
               /\ validations[k].result = TRUE
               /\ validations[k].log = <<"warning">>
        /\ validations[k].result = FALSE => config.project_id = ""

\* validate has run on an oversized position with the project id set.
C13_Witness ==
    /\ validations # << >>
    /\ config.project_id # ""
    /\ config.max_position_size_pct > 10

\* C14: the configuration is read-only: no step, of validate, of an
\* initialization or of the probe, changes any field of it.
C14_ConfigReadOnly == [][config' = config]_vars

\* validate has run, whatever it returned, and an initialization with
\* a probe is over.
C14_Witness ==
    /\ validations # << >>
    /\ \E i \in DOMAIN calls : Finished(i) /\ calls[i].storeOps > 0

\* C15: in every failing invocation of _initialize_firebase the error
\* record is logged before control leaves the function: at the step
\* that raises to the caller, the last record of the invocation's log
\* is already the handler's error-level record.
C15_ErrorLoggedBeforeRaise ==
    [][\A i \in DOMAIN calls :
          (calls[i].raised = "none" /\ calls'[i].raised # "none") =>
              /\ pc = "reraise"
              /\ calls[i].log # << >>
              /\ calls[i].log[Len(calls[i].log)] = "error"]_vars

\* A failing invocation is over, with its error record logged.
C15_Witness ==
    \E i \in DOMAIN calls :
        /\ calls[i].raised # "none"
        /\ calls[i].log # << >>
        /\ calls[i].log[Len(calls[i].log)] = "error"

\* The worker has returned True.
Succeeded(w) == w.pc = "done" /\ w.exception = "none" /\ w.result = TRUE

\* C16: within one probe the delete is issued only after the set has
\* completed without error; the worker reports success only if both
\* completed without error, and then no sentinel document is left in
\* the store; a probe whose set succeeded and whose delete failed
\* reports failure.
C16_SetThenDelete ==
    /\ (worker.pc = "delete" \/ worker.delete # "none") => worker.set = "ok"
    /\ Succeeded(worker) =>
           /\ worker.set = "ok"
           /\ worker.delete = "ok"
           /\ SentinelPath \notin store
    /\ (worker.set = "ok" /\ worker.delete = "error") =>
           (worker.pc = "done" /\ worker.result = FALSE)

\* A probe whose set succeeded and whose delete failed has ended.
C16_Witness ==
    /\ worker.pc = "done"
    /\ worker.set = "ok"
    /\ worker.delete = "error"

\* C17: under every interleaving, a step of the probe worker leaves
\* self.client and self._initialized of every manager unchanged, and
\* leaves unchanged what each invocation has observed of the probe and
\* how it ended; so a worker finishing after the timeout was reported
\* changes neither.
C17_WorkerLeavesManagerState ==
    [][WorkerStep =>
          /\ client' = client
          /\ initialized' = initialized
          /\ held' = held
          /\ \A i \in DOMAIN calls :
                 /\ calls'[i].probe = calls[i].probe
                 /\ calls'[i].fault = calls[i].fault
                 /\ calls'[i].raised = calls[i].raised
                 /\ calls'[i].returned = calls[i].returned]_vars

\* The worker has finished after its caller saw the timeout.
C17_Witness ==
    /\ calls # << >>
    /\ Cur.probe = "timeout"
    /\ worker.pc = "done"
    /\ initialized[Cur.mgr]
    /\ client[Cur.mgr] = "client"

\* C18: in every reachable state, also after a failing initialization
\* and while the probe worker is running, a manager whose _initialized
\* flag is true has a client in self.client.
C18_InitializedImpliesClient ==
    \A m \in Managers : initialized[m] => client[m] # "None"

\* An initialization has failed leaving its manager's flag set, and the
\* worker of a later probe is running for a manager whose flag is set.
C18_Witness ==
    /\ \E i \in DOMAIN calls :
           calls[i].raised # "none" /\ initialized[calls[i].mgr]
    /\ worker.pc \in {"set", "delete"}
    /\ initialized[Cur.mgr]

====
